---- MODULE Spec2Model ----
(***************************************************************************)
(* Model of the graph REST endpoint of EliasDB (api/v1/graph.go): one      *)
(* request handled by HandleGET, HandlePUT, HandlePOST or HandleDELETE     *)
(* against the graph manager (api.GM) and a graph transaction.             *)
(*                                                                         *)
(* A request is fixed in the initial state; every action is one step of    *)
(* the handler between two collaborator calls, and pc is the handler's     *)
(* position.  The answers of the collaborators (faults, misses, rejected   *)
(* items, traversal results) are inputs chosen when the call is made.      *)
(***************************************************************************)
EXTENDS Integers, Sequences, FiniteSets, TLC

VARIABLES
    req,        \* the request: verb, resources, raw limit/offset, body
    store,      \* graph store: per partition, the node keys of kind "K"
    pc,         \* position of the handler
    limit,      \* HandleGET: parsed limit, -1 if not set
    offset,     \* HandleGET: parsed offset, -1 if not set
    i,          \* HandleGET: loop counter of the skip and list loops
    it,         \* the node key iterator: its keys and its position
    data,       \* HandleGET: the rows collected for the list response
    dataNodes,  \* HandleGET: data[0] of a traversal response
    dataEdges,  \* HandleGET: data[1] of a traversal response
    travNodes,  \* nodes as returned by TraverseMulti
    travEdges,  \* edges as returned by TraverseMulti
    si,         \* sort.Stable (insertion sort): outer index
    sj,         \* sort.Stable (insertion sort): inner index
    nDataList,  \* handleGraphRequest: decoded nodes (isNil, items)
    eDataList,  \* handleGraphRequest: decoded edges (isNil, items)
    k,          \* handleGraphRequest: index of the next item of the loop
    calls,      \* every call made on api.GM, the iterator and the transaction
    answers,    \* what each of these calls returned: "ok", "nil" or "error"
    committed,  \* the operations made durable by a successful Commit
    status,     \* HTTP status of the response, 0 while nothing is written
    errMsg,     \* the error the response carries
    hdrTotal,   \* X-Total-Count header, -1 if not set
    out         \* the JSON body written

vars == <<req, store, pc, limit, offset, i, it, data, dataNodes,
          dataEdges, travNodes, travEdges, si, sj, nDataList, eDataList, k,
          calls, answers, committed, status, errMsg, hdrTotal, out>>

getVars == <<limit, offset, i, it, data>>
travVars == <<dataNodes, dataEdges, travNodes, travEdges, si, sj>>
mutVars == <<nDataList, eDataList, k, committed>>

----------------------------------------------------------------------------
(* Bounds of the model *)

MaxPop == 3       \* most node keys of one kind in one partition
MaxParam == 4     \* largest number given as limit or offset
MaxTrav == 3      \* most (node, edge) pairs a traversal returns
MaxItems == 2     \* most items in a list of the request body

----------------------------------------------------------------------------
(* HTTP status codes *)

StatusOK == 200
StatusBadRequest == 400
StatusInternalServerError == 500

----------------------------------------------------------------------------
(* Input domains *)

Partitions == {"p1", "p2"}
Keys == 1..MaxPop

RECURSIVE SeqsUpTo(_, _)
SeqsUpTo(S, n) ==
    IF n = 0 THEN {<<>>}
    ELSE LET shorter == SeqsUpTo(S, n - 1)
         IN  shorter \cup {Append(s, x) : s \in shorter, x \in S}

Distinct(s) == \A a, b \in 1..Len(s) : a # b => s[a] # s[b]

\* What a partition holds for the kind: nothing was ever stored (unknown),
\* or a sequence of distinct keys in the order the iterator yields them.
Populations ==
    {[known |-> FALSE, keys |-> <<>>]} \cup
    {[known |-> TRUE, keys |-> s] : s \in {t \in SeqsUpTo(Keys, MaxPop) : Distinct(t)}}

\* The populations with their keys in ascending order.
SortedPopulations ==
    {q \in Populations : \A a, b \in 1..Len(q.keys) : a < b => q.keys[a] < q.keys[b]}

\* The stores a request to the partition part is tried on: any population in
\* this partition; in the others, whose key order no request reads, the
\* sorted ones.
Stores(part) ==
    {[p \in Partitions |-> IF p = part THEN a ELSE b] :
        a \in Populations, b \in SortedPopulations}
EmptyStore == [p \in Partitions |-> [known |-> FALSE, keys |-> <<>>]]

\* Stands for the numbers from 2^44 on, which strconv.Atoi accepts and which
\* are more than the capacity a slice of interface{} can be made with.
BigParam == 2^20

\* A raw query parameter: absent, not a number, or an integer.
RawParams ==
    {[t |-> "unset", n |-> 0], [t |-> "text", n |-> 0], [t |-> "num", n |-> -1]} \cup
    {[t |-> "num", n |-> n] : n \in (0..MaxParam) \cup {BigParam}}
Unset == [t |-> "unset", n |-> 0]

----------------------------------------------------------------------------
(* Responses *)

NoError == [msg |-> "", call |-> 0]
\* An error raised by the handler itself, with its message.
OwnError(msg) == [msg |-> msg, call |-> 0]
\* err.Error() of the error returned by the n-th collaborator call.
CallError(n) == [msg |-> "err.Error()", call |-> n]

----------------------------------------------------------------------------
(* Requests *)

Verbs == {"GET", "PUT", "POST", "DELETE"}
EntityTypes == {"n", "e", "x"}

\* resources: the path below /graph/, split at "/".
FullPaths == {<<p, t, "K", "1", "spec", "extra">> : p \in Partitions, t \in EntityTypes}
Paths == {SubSeq(f, 1, n) : f \in FullPaths, n \in 0..6}

\* An item of a request body: a JSON object with key, kind and one attribute.
Items == {[key |-> key, kind |-> "K", name |-> "A"] : key \in {"1", "2"}}
NilList == [isNil |-> TRUE, items |-> <<>>]
Lists == {NilList} \cup {[isNil |-> FALSE, items |-> s] : s \in SeqsUpTo(Items, MaxItems)}

\* A request body: not JSON of the expected shape at all, the JSON null, a
\* JSON object with "nodes" and "edges" (each absent/null or a list), or a
\* JSON array (kept in the nodes field).
Bodies ==
    {[t |-> "garbage", nodes |-> NilList, edges |-> NilList],
     [t |-> "null", nodes |-> NilList, edges |-> NilList]} \cup
    {[t |-> "object", nodes |-> n, edges |-> e] : n \in Lists, e \in Lists} \cup
    {[t |-> "array", nodes |-> l, edges |-> NilList] : l \in Lists \ {NilList}}
NoBody == [t |-> "garbage", nodes |-> NilList, edges |-> NilList]

IsNodeList(r) == r.verb = "GET" /\ Len(r.resources) = 3 /\ r.resources[2] = "n"

\* Query parameters, the store and the body are drawn only for the requests
\* that read them.
Requests ==
    {[verb |-> "GET", resources |-> r, limit |-> l, offset |-> o, body |-> NoBody] :
        r \in {q \in Paths : Len(q) = 3 /\ q[2] = "n"}, l \in RawParams, o \in RawParams}
    \cup
    {[verb |-> v, resources |-> r, limit |-> Unset, offset |-> Unset, body |-> b] :
        v \in Verbs \ {"GET"}, r \in {q \in Paths : Len(q) \in 1..2}, b \in Bodies}
    \cup
    {[verb |-> v, resources |-> r, limit |-> Unset, offset |-> Unset, body |-> NoBody] :
        v \in Verbs, r \in Paths}

Init ==
    /\ req \in Requests
    /\ store \in (IF IsNodeList(req) THEN Stores(req.resources[1]) ELSE {EmptyStore})
    /\ pc = "received"
    /\ limit = -1
    /\ offset = -1
    /\ i = 0
    /\ it = [keys |-> <<>>, pos |-> 0]
    /\ data = <<>>
    /\ dataNodes = <<>>
    /\ dataEdges = <<>>
    /\ travNodes = <<>>
    /\ travEdges = <<>>
    /\ si = 0
    /\ sj = 0
    /\ nDataList = NilList
    /\ eDataList = NilList
    /\ k = 1
    /\ calls = <<>>
    /\ answers = <<>>
    /\ committed = <<>>
    /\ status = 0
    /\ errMsg = NoError
    /\ hdrTotal = -1
    /\ out = <<>>

----------------------------------------------------------------------------
(* Helpers shared by the handlers *)

\* http.Error(w, msg, code) followed by return.
HttpError(err, code) ==
    /\ status' = code
    /\ errMsg' = err
    /\ pc' = "done"
    /\ UNCHANGED <<hdrTotal, out>>

NoResponse == UNCHANGED <<status, errMsg, hdrTotal, out>>

\* checkResources: the path must have between requiredMin and requiredMax
\* segments.
checkResources(resources, requiredMin, requiredMax) ==
    Len(resources) >= requiredMin /\ Len(resources) <= requiredMax

\* queryParamPosNum: -1 if the parameter is not set; an error unless it is a
\* number >= 0.
queryParamOk(raw) == raw.t = "unset" \/ (raw.t = "num" /\ raw.n >= 0)
queryParamPosNum(raw) == IF raw.t = "unset" THEN -1 ELSE raw.n

Call(op, part, key, kind) == [op |-> op, part |-> part, key |-> key, kind |-> kind]

\* The handler makes the call c and is answered a.
Made(c, a) ==
    /\ calls' = Append(calls, c)
    /\ answers' = Append(answers, a)
NoCall == UNCHANGED <<calls, answers>>

\* api.GM.NodeCount(kind): the number of nodes of the kind in the store.
RECURSIVE SumPop(_, _)
SumPop(s, parts) ==
    IF parts = {} THEN 0
    ELSE LET p == CHOOSE q \in parts : TRUE
         IN  Len(s[p].keys) + SumPop(s, parts \ {p})
NodeCount(kind) == SumPop(store, Partitions)

\* it.HasNext()
HasNext == it.pos < Len(it.keys)

\* node.Data() of the node api.GM.FetchNode(part, key, kind) returns.
NodeData(part, key, kind) == [key |-> key, kind |-> kind, part |-> part]

----------------------------------------------------------------------------
(* HandleGET *)

\* The path check without the refusal of a list of edges.
HandleGET_Check_AnyType ==
    /\ pc = "received"
    /\ req.verb = "GET"
    /\ LET resources == req.resources IN
       IF ~checkResources(resources, 3, 5)
       THEN HttpError(OwnError("Need a partition, entity type (n or e) and a kind; optional key and traversal spec"),
                      StatusBadRequest)
       ELSE IF resources[2] # "n" /\ resources[2] # "e"
       THEN HttpError(OwnError("Entity type must be n (nodes) or e (edges)"), StatusBadRequest)
       ELSE IF Len(resources) = 3
       THEN pc' = "params" /\ NoResponse
       ELSE IF Len(resources) = 4
       THEN pc' = "fetch" /\ NoResponse
       ELSE IF resources[2] = "n"
            THEN pc' = "travstart" /\ NoResponse
            ELSE HttpError(OwnError("Entity type must be n (nodes) when requesting traversal results"),
                           StatusBadRequest)
    /\ UNCHANGED <<req, store, getVars, travVars, mutVars, calls, answers>>

\* Lines 224-231 and the dispatch on len(resources) of lines 233, 237, 332,
\* 374 and 376: the path check, which makes no collaborator call.
HandleGET_Check ==
    /\ pc = "received"
    /\ req.verb = "GET"
    /\ LET resources == req.resources IN
       IF ~checkResources(resources, 3, 5)
       THEN HttpError(OwnError("Need a partition, entity type (n or e) and a kind; optional key and traversal spec"),
                      StatusBadRequest)
       ELSE IF resources[2] # "n" /\ resources[2] # "e"
       THEN HttpError(OwnError("Entity type must be n (nodes) or e (edges)"), StatusBadRequest)
       ELSE IF Len(resources) = 3
       THEN IF resources[2] = "n"
            THEN pc' = "params" /\ NoResponse
            ELSE HttpError(OwnError("Entity type must be n (nodes) when requesting all items"),
                           StatusBadRequest)
       ELSE IF Len(resources) = 4
       THEN pc' = "fetch" /\ NoResponse
       ELSE IF resources[2] = "n"
            THEN pc' = "travstart" /\ NoResponse
            ELSE HttpError(OwnError("Entity type must be n (nodes) when requesting traversal results"),
                           StatusBadRequest)
    /\ UNCHANGED <<req, store, getVars, travVars, mutVars, calls, answers>>

\* Lines 241-251: the limit and offset parameters.
HandleGET_Params ==
    /\ pc = "params"
    /\ IF ~queryParamOk(req.limit)
       THEN /\ HttpError(OwnError("Invalid parameter value: limit"), StatusBadRequest)
            /\ UNCHANGED <<limit, offset>>
       ELSE IF ~queryParamOk(req.offset)
       THEN /\ HttpError(OwnError("Invalid parameter value: offset"), StatusBadRequest)
            /\ limit' = queryParamPosNum(req.limit)
            /\ UNCHANGED offset
       ELSE /\ limit' = queryParamPosNum(req.limit)
            /\ offset' = queryParamPosNum(req.offset)
            /\ pc' = "iter"
            /\ NoResponse
    /\ UNCHANGED <<req, store, i, it, data, travVars, mutVars, calls, answers>>

\* Lines 253-262: api.GM.NodeKeyIterator(resources[0], resources[2]).
HandleGET_Iterator ==
    /\ pc = "iter"
    /\ LET part == req.resources[1]
           kind == req.resources[3]
           c == Call("NodeKeyIterator", part, "", kind)
       IN  \E fault \in BOOLEAN :
                IF fault
                THEN /\ Made(c, "error")
                     /\ HttpError(CallError(Len(calls')), StatusInternalServerError)
                     /\ UNCHANGED <<it, i>>
                ELSE IF ~store[part].known
                THEN /\ Made(c, "nil")
                     /\ HttpError(OwnError("Unknown partition or node kind"), StatusBadRequest)
                     /\ UNCHANGED <<it, i>>
                ELSE /\ Made(c, "ok")
                     /\ it' = [keys |-> store[part].keys, pos |-> 0]
                     /\ i' = 0
                     /\ pc' = "skip"
                     /\ NoResponse
    /\ UNCHANGED <<req, store, limit, offset, data, travVars, mutVars>>

\* The skip loop going one round too far.
SkipMoreInclusive(n, off) == n <= off

\* Line 266: the condition of the skip loop.
SkipMore(n, off) == n < off

\* The limit check letting one more row through.
LimitReachedLate(n, off, lim) == lim # -1 /\ n > off + lim

\* Line 295: the limit was reached.
LimitReached(n, off, lim) == lim # -1 /\ n > off + lim - 1

\* Lines 283-289: where the handler is after make([]interface{}, 0, limit),
\* which panics with "cap out of range" for a limit beyond what can be
\* allocated.  So offset+limit-1 of line 295 is only computed for limits far
\* below the largest int and does not overflow.
AfterMake(lim) == IF lim >= BigParam THEN "panic" ELSE "list"

\* Lines 264-289: one pass of the skip loop, or its exit.
HandleGET_Skip ==
    /\ pc = "skip"
    /\ LET part == req.resources[1]
           kind == req.resources[3]
       IN
       IF offset = -1
       THEN /\ offset' = 0
            /\ pc' = AfterMake(limit)
            /\ i' = 0
            /\ NoResponse
            /\ NoCall
            /\ UNCHANGED it
       ELSE IF SkipMore(i, offset)
       THEN IF ~HasNext
            THEN /\ HttpError(OwnError("Offset exceeds available nodes"), StatusInternalServerError)
                 /\ NoCall
                 /\ UNCHANGED <<offset, i, it>>
            ELSE /\ it' = [it EXCEPT !.pos = @ + 1]
                 /\ UNCHANGED offset
                 /\ \E fault \in BOOLEAN :
                      IF fault
                      THEN /\ Made(Call("Next", part, it.keys[it.pos + 1], kind), "error")
                           /\ HttpError(CallError(Len(calls')), StatusInternalServerError)
                           /\ UNCHANGED i
                      ELSE /\ Made(Call("Next", part, it.keys[it.pos + 1], kind), "ok")
                           /\ i' = i + 1
                           /\ NoResponse
                           /\ UNCHANGED pc
       ELSE /\ i' = offset
            /\ pc' = AfterMake(limit)
            /\ NoResponse
            /\ NoCall
            /\ UNCHANGED <<offset, it>>
    /\ UNCHANGED <<req, store, limit, data, travVars, mutVars>>

\* Lines 291-314: one pass of the list loop, or its exit.  A node that
\* FetchNode does not find is returned as nil without an error, and
\* node.Data() on it panics: the handler ends without writing a response
\* (net/http recovers the panic and closes the connection).
HandleGET_List ==
    /\ pc = "list"
    /\ LET part == req.resources[1]
           kind == req.resources[3]
       IN
       IF ~HasNext \/ LimitReached(i, offset, limit)
       THEN /\ pc' = "count"
            /\ NoResponse
            /\ NoCall
            /\ UNCHANGED <<i, it, data>>
       ELSE LET key == it.keys[it.pos + 1]
                next == Call("Next", part, key, kind)
                fetch == Call("FetchNode", part, key, kind)
            IN  /\ it' = [it EXCEPT !.pos = @ + 1]
                /\ \E res \in {"ok", "nextfault", "fetchfault", "miss"} :
                     CASE res = "nextfault" ->
                            /\ Made(next, "error")
                            /\ HttpError(CallError(Len(calls')), StatusInternalServerError)
                            /\ UNCHANGED <<i, data>>
                       [] res = "fetchfault" ->
                            /\ calls' = calls \o <<next, fetch>>
                            /\ answers' = answers \o <<"ok", "error">>
                            /\ HttpError(CallError(Len(calls')), StatusInternalServerError)
                            /\ UNCHANGED <<i, data>>
                       [] res = "miss" ->
                            /\ calls' = calls \o <<next, fetch>>
                            /\ answers' = answers \o <<"ok", "nil">>
                            /\ pc' = "panic"
                            /\ NoResponse
                            /\ UNCHANGED <<i, data>>
                       [] res = "ok" ->
                            /\ calls' = calls \o <<next, fetch>>
                            /\ answers' = answers \o <<"ok", "ok">>
                            /\ data' = Append(data, NodeData(part, key, kind))
                            /\ i' = i + 1
                            /\ NoResponse
                            /\ UNCHANGED pc
    /\ UNCHANGED <<req, store, limit, offset, travVars, mutVars>>

\* Lines 316-325: the total count header and the body.
HandleGET_ListRespond ==
    /\ pc = "count"
    /\ Made(Call("NodeCount", "", "", req.resources[3]), "ok")
    /\ hdrTotal' = NodeCount(req.resources[3])
    /\ status' = StatusOK
    /\ out' = data
    /\ pc' = "done"
    /\ UNCHANGED <<req, store, getVars, travVars, mutVars, errMsg>>

\* Lines 336-372: a single node or edge.
HandleGET_Fetch ==
    /\ pc = "fetch"
    /\ LET part == req.resources[1]
           kind == req.resources[3]
           key == req.resources[4]
           isNode == req.resources[2] = "n"
           c == Call(IF isNode THEN "FetchNode" ELSE "FetchEdge", part, key, kind)
       IN  \E res \in {"ok", "fault", "miss"} :
                CASE res = "fault" ->
                       /\ Made(c, "error")
                       /\ HttpError(CallError(Len(calls')), StatusInternalServerError)
                  [] res = "miss" ->
                       /\ Made(c, "nil")
                       /\ HttpError(OwnError(IF isNode THEN "Unknown partition or node kind"
                                          ELSE "Unknown partition or edge kind"),
                                 StatusBadRequest)
                  [] res = "ok" ->
                       /\ Made(c, "ok")
                       /\ out' = NodeData(part, key, kind)
                       /\ status' = StatusOK
                       /\ pc' = "done"
                       /\ UNCHANGED <<errMsg, hdrTotal>>
    /\ UNCHANGED <<req, store, getVars, travVars, mutVars>>

----------------------------------------------------------------------------
(* Traversal *)

\* A string is the sequence of its bytes.
Str_b == <<98>>
Str_10 == <<49, 48>>

\* Values of the "key" attribute of a traversed node: strings, and numbers
\* as a JSON body gives them.
StrKey(str) == [t |-> "string", s |-> str, n |-> 0]
NumKey(num) == [t |-> "number", s |-> <<>>, n |-> num]
KeyVals == {StrKey(Str_b), StrKey(Str_10), NumKey(10), NumKey(9)}
EdgeKeys == {"e1", "e2"}

\* Decimal digits of a natural number.
RECURSIVE Digits(_)
Digits(n) == IF n < 10 THEN <<48 + n>> ELSE Digits(n \div 10) \o <<48 + (n % 10)>>

\* fmt.Sprintf("%v", v)
Sprintf(v) == IF v.t = "string" THEN v.s ELSE Digits(v.n)

\* s < t on Go strings: bytewise lexicographic.
StrLess(s, t) ==
    \E n \in 1..(Len(t)) :
        /\ \A m \in 1..(n - 1) : m <= Len(s) /\ s[m] = t[m]
        /\ (n > Len(s) \/ s[n] < t[n])

\* traversalResultComparator.Len
ComparatorLen(d0) == Len(d0)

\* Less that also holds of equal key strings.
LessOrEqual(d0, a, b) == ~StrLess(Sprintf(d0[b].key), Sprintf(d0[a].key))

\* traversalResultComparator.Less
Less(d0, a, b) == StrLess(Sprintf(d0[a].key), Sprintf(d0[b].key))

SwapAt(s, a, b) == [s EXCEPT ![a] = s[b], ![b] = s[a]]

\* Swap that exchanges the nodes and leaves the edges.
SwapNodesOnly(d0, d1, a, b) == <<SwapAt(d0, a, b), d1>>

\* traversalResultComparator.Swap: the new Data[0] and Data[1].
Swap(d0, d1, a, b) == <<SwapAt(d0, a, b), SwapAt(d1, a, b)>>

\* What TraverseMulti returns without an error: nil slices, or as many edges
\* as nodes, edges[i] being the edge traversed to reach nodes[i].
TravResults ==
    {[isNil |-> TRUE, nodes |-> <<>>, edges |-> <<>>]} \cup
    UNION {[isNil : {FALSE},
            nodes : [1..n -> {[key |-> v] : v \in KeyVals}],
            edges : [1..n -> {[key |-> e] : e \in EdgeKeys}]] : n \in 0..MaxTrav}

\* Lines 378-386: the start node of the traversal.
HandleGET_TravStart ==
    /\ pc = "travstart"
    /\ LET part == req.resources[1]
           kind == req.resources[3]
           key == req.resources[4]
           c == Call("FetchNodePart", part, key, kind)
       IN  \E res \in {"ok", "fault", "miss"} :
                CASE res = "fault" ->
                       /\ Made(c, "error")
                       /\ HttpError(CallError(Len(calls')), StatusInternalServerError)
                  [] res = "miss" ->
                       /\ Made(c, "nil")
                       /\ HttpError(OwnError("Unknown partition or node kind"), StatusBadRequest)
                  [] res = "ok" ->
                       /\ Made(c, "ok")
                       /\ pc' = "traverse"
                       /\ NoResponse
    /\ UNCHANGED <<req, store, getVars, travVars, mutVars>>

\* Lines 388-411: api.GM.TraverseMulti and the two lists built from its
\* result.
HandleGET_Traverse ==
    /\ pc = "traverse"
    /\ LET part == req.resources[1]
           kind == req.resources[3]
           key == req.resources[4]
           c == [op |-> "TraverseMulti", part |-> part, key |-> key,
                 kind |-> kind, spec |-> req.resources[5]]
       IN  \/ /\ Made(c, "error")
              /\ HttpError(CallError(Len(calls')), StatusInternalServerError)
              /\ UNCHANGED travVars
           \/ \E res \in TravResults :
                   /\ Made(c, "ok")
                   /\ travNodes' = res.nodes
                   /\ travEdges' = res.edges
                   /\ IF ~res.isNil
                      THEN /\ dataNodes' = [n \in 1..Len(res.nodes) |-> res.nodes[n]]
                           /\ dataEdges' = [n \in 1..Len(res.nodes) |-> res.edges[n]]
                      ELSE /\ dataNodes' = <<>>
                           /\ dataEdges' = <<>>
                   /\ si' = 2
                   /\ sj' = 2
                   /\ pc' = "sort"
                   /\ NoResponse
    /\ UNCHANGED <<req, store, getVars, mutVars>>

\* Line 415: sort.Stable, which for fewer than 20 elements is one insertion
\* sort: for si from the second element on, the element is swapped downwards
\* while it is Less than the one before it.  One step is one Less, with the
\* Swap or the move to the next element that follows it.
HandleGET_Sort ==
    /\ pc = "sort"
    /\ IF si > ComparatorLen(dataNodes)
       THEN /\ pc' = "encode"
            /\ UNCHANGED <<dataNodes, dataEdges, si, sj>>
       ELSE IF sj > 1 /\ Less(dataNodes, sj, sj - 1)
       THEN /\ dataNodes' = Swap(dataNodes, dataEdges, sj, sj - 1)[1]
            /\ dataEdges' = Swap(dataNodes, dataEdges, sj, sj - 1)[2]
            /\ sj' = sj - 1
            /\ UNCHANGED <<pc, si>>
       ELSE /\ si' = si + 1
            /\ sj' = si + 1
            /\ UNCHANGED <<pc, dataNodes, dataEdges>>
    /\ NoResponse
    /\ UNCHANGED <<req, store, getVars, travNodes, travEdges, mutVars, calls, answers>>

\* Lines 419-422: the traversal response.
HandleGET_TravRespond ==
    /\ pc = "encode"
    /\ out' = <<dataNodes, dataEdges>>
    /\ status' = StatusOK
    /\ pc' = "done"
    /\ UNCHANGED <<req, store, getVars, travVars, mutVars, calls, answers, errMsg, hdrTotal>>

----------------------------------------------------------------------------
(* HandlePUT, HandlePOST, HandleDELETE and handleGraphRequest *)

\* The node function of HandlePUT storing the node instead of updating it.
HandlePUT_Node_Store(part, node) == [op |-> "StoreNode", part |-> part, item |-> node]

\* The call on the transaction made by the node function of HandlePUT.
HandlePUT_Node(part, node) == [op |-> "UpdateNode", part |-> part, item |-> node]
\* The call made by the edge function of HandlePUT.
HandlePUT_Edge(part, edge) == [op |-> "StoreEdge", part |-> part, item |-> edge]
\* The calls made by the functions of HandlePOST.
HandlePOST_Node(part, node) == [op |-> "StoreNode", part |-> part, item |-> node]
HandlePOST_Edge(part, edge) == [op |-> "StoreEdge", part |-> part, item |-> edge]
\* The calls made by the functions of HandleDELETE.
HandleDELETE_Node(part, node) ==
    [op |-> "RemoveNode", part |-> part, key |-> node.key, kind |-> node.kind]
HandleDELETE_Edge(part, edge) ==
    [op |-> "RemoveEdge", part |-> part, key |-> edge.key, kind |-> edge.kind]

\* transFuncNode and transFuncEdge as the handler of the verb passes them.
transFuncNode(verb, part, node) ==
    CASE verb = "PUT" -> HandlePUT_Node(part, node)
      [] verb = "POST" -> HandlePOST_Node(part, node)
      [] verb = "DELETE" -> HandleDELETE_Node(part, node)
transFuncEdge(verb, part, edge) ==
    CASE verb = "PUT" -> HandlePUT_Edge(part, edge)
      [] verb = "POST" -> HandlePOST_Edge(part, edge)
      [] verb = "DELETE" -> HandleDELETE_Edge(part, edge)

TransOps == {"UpdateNode", "StoreNode", "RemoveNode", "StoreEdge", "RemoveEdge"}

\* The calls staged in the transaction so far.
Staged == SelectSeq(calls, LAMBDA c : c.op \in TransOps)

\* dec.Decode into a map of lists: a JSON object or null.
DecodesAsGraph(body) == body.t \in {"object", "null"}
\* dec.Decode into a list: a JSON array or null.
DecodesAsList(body) == body.t \in {"array", "null"}

\* The n-th item, counted from the end of the list.
RangeItemReversed(list, n) == list.items[Len(list.items) - n + 1]

\* Lines 531 and 545: the n-th item a range loop over the list visits.
RangeItem(list, n) == list.items[n]

\* Lines 485-487: the path check.
handleGraphRequest_Check ==
    /\ pc = "received"
    /\ req.verb # "GET"
    /\ IF ~checkResources(req.resources, 1, 2)
       THEN HttpError(OwnError("Need a partition; optional entity type (n or e)"), StatusBadRequest)
       ELSE pc' = "decode" /\ NoResponse
    /\ UNCHANGED <<req, store, getVars, travVars, mutVars, calls, answers>>

\* Lines 489-525: the body is decoded as the path asks, and the transaction
\* is created.
handleGraphRequest_Decode ==
    /\ pc = "decode"
    /\ LET resources == req.resources IN
       IF Len(resources) = 1
       THEN IF ~DecodesAsGraph(req.body)
            THEN /\ HttpError(OwnError("Could not decode request body as object with list of nodes and/or edges"),
                              StatusBadRequest)
                 /\ UNCHANGED <<nDataList, eDataList>>
            ELSE /\ nDataList' = req.body.nodes
                 /\ eDataList' = req.body.edges
                 /\ pc' = "nodes"
                 /\ NoResponse
       ELSE IF resources[2] = "n"
       THEN IF ~DecodesAsList(req.body)
            THEN /\ HttpError(OwnError("Could not decode request body as list of nodes"), StatusBadRequest)
                 /\ UNCHANGED <<nDataList, eDataList>>
            ELSE /\ nDataList' = req.body.nodes
                 /\ pc' = "nodes"
                 /\ NoResponse
                 /\ UNCHANGED eDataList
       ELSE IF resources[2] = "e"
       THEN IF ~DecodesAsList(req.body)
            THEN /\ HttpError(OwnError("Could not decode request body as list of edges"), StatusBadRequest)
                 /\ UNCHANGED <<nDataList, eDataList>>
            ELSE /\ eDataList' = req.body.nodes
                 /\ pc' = "nodes"
                 /\ NoResponse
                 /\ UNCHANGED nDataList
       ELSE /\ pc' = "nodes"
            /\ NoResponse
            /\ UNCHANGED <<nDataList, eDataList>>
    /\ k' = 1
    /\ UNCHANGED <<req, store, getVars, travVars, committed, calls, answers>>

\* The node loop, going on to the next node after a rejected one.
handleGraphRequest_Nodes_Continue ==
    /\ pc = "nodes"
    /\ IF nDataList.isNil \/ k > Len(nDataList.items)
       THEN /\ pc' = "edges"
            /\ k' = 1
            /\ NoCall
       ELSE /\ \E a \in {"ok", "error"} :
                 Made(transFuncNode(req.verb, req.resources[1], RangeItem(nDataList, k)), a)
            /\ k' = k + 1
            /\ UNCHANGED pc
    /\ NoResponse
    /\ UNCHANGED <<req, store, getVars, travVars, nDataList, eDataList, committed>>

\* Lines 527-539: one pass of the node loop, or its exit.
handleGraphRequest_Nodes ==
    /\ pc = "nodes"
    /\ IF nDataList.isNil \/ k > Len(nDataList.items)
       THEN /\ pc' = "edges"
            /\ k' = 1
            /\ NoResponse
            /\ NoCall
       ELSE \E rejected \in BOOLEAN :
                 IF rejected
                 THEN /\ Made(transFuncNode(req.verb, req.resources[1], RangeItem(nDataList, k)), "error")
                      /\ HttpError(CallError(Len(calls')), StatusBadRequest)
                      /\ UNCHANGED k
                 ELSE /\ Made(transFuncNode(req.verb, req.resources[1], RangeItem(nDataList, k)), "ok")
                      /\ k' = k + 1
                      /\ NoResponse
                      /\ UNCHANGED pc
    /\ UNCHANGED <<req, store, getVars, travVars, nDataList, eDataList, committed>>

\* Lines 541-553: one pass of the edge loop, or its exit.
handleGraphRequest_Edges ==
    /\ pc = "edges"
    /\ IF eDataList.isNil \/ k > Len(eDataList.items)
       THEN /\ pc' = "commit"
            /\ NoResponse
            /\ NoCall
            /\ UNCHANGED k
       ELSE \E rejected \in BOOLEAN :
                 IF rejected
                 THEN /\ Made(transFuncEdge(req.verb, req.resources[1], RangeItem(eDataList, k)), "error")
                      /\ HttpError(CallError(Len(calls')), StatusBadRequest)
                      /\ UNCHANGED k
                 ELSE /\ Made(transFuncEdge(req.verb, req.resources[1], RangeItem(eDataList, k)), "ok")
                      /\ k' = k + 1
                      /\ NoResponse
                      /\ UNCHANGED pc
    /\ UNCHANGED <<req, store, getVars, travVars, nDataList, eDataList, committed>>

\* Lines 557-561: trans.Commit(); without an error the handler returns and
\* the response is an empty 200.
handleGraphRequest_Commit ==
    /\ pc = "commit"
    /\ \E failed \in BOOLEAN :
         IF failed
         THEN /\ Made([op |-> "Commit"], "error")
              /\ HttpError(CallError(Len(calls')), StatusInternalServerError)
              /\ UNCHANGED committed
         ELSE /\ Made([op |-> "Commit"], "ok")
              /\ committed' = Staged
              /\ status' = StatusOK
              /\ pc' = "done"
              /\ UNCHANGED <<errMsg, hdrTotal, out>>
    /\ UNCHANGED <<req, store, getVars, travVars, nDataList, eDataList, k>>

----------------------------------------------------------------------------

Next ==
    \/ HandleGET_Check
    \/ HandleGET_Params
    \/ HandleGET_Iterator
    \/ HandleGET_Skip
    \/ HandleGET_List
    \/ HandleGET_ListRespond
    \/ HandleGET_Fetch
    \/ HandleGET_TravStart
    \/ HandleGET_Traverse
    \/ HandleGET_Sort
    \/ HandleGET_TravRespond
    \/ handleGraphRequest_Check
    \/ handleGraphRequest_Decode
    \/ handleGraphRequest_Nodes
    \/ handleGraphRequest_Edges
    \/ handleGraphRequest_Commit

Spec == Init /\ [][Next]_vars

----------------------------------------------------------------------------
(* Vocabulary of the properties *)

IsMutation == req.verb \in {"PUT", "POST", "DELETE"}
NodeOps == {"UpdateNode", "StoreNode", "RemoveNode"}
EdgeOps == {"StoreEdge", "RemoveEdge"}

\* The indices of the calls with an operation in ops.
CallsOf(ops) == {n \in 1..Len(calls) : calls[n].op \in ops}

\* The key of the item a call on the transaction was made for.
ItemKey(c) == IF "item" \in DOMAIN c THEN c.item.key ELSE c.key

IsPrefix(s, t) == Len(s) <= Len(t) /\ \A n \in 1..Len(s) : s[n] = t[n]

Min(a, b) == IF a < b THEN a ELSE b

----------------------------------------------------------------------------
(* C1 *)

\* C1: in a PUT/POST/DELETE batch, when a strategy call fails it is the last
\* call made (no strategy call for a later item, no Commit), nothing is
\* committed, and the response is a client error that carries the error of
\* this call, which is therefore the first one to fail.
C1_FailFast ==
    IsMutation =>
        \A n \in CallsOf(TransOps) :
            answers[n] = "error" =>
                /\ n = Len(calls)
                /\ CallsOf({"Commit"}) = {}
                /\ committed = <<>>
                /\ pc = "done"
                /\ status = StatusBadRequest
                /\ errMsg = CallError(n)

\* An edge is rejected after two nodes and one edge were staged.
C1_Witness ==
    /\ IsMutation
    /\ Len(calls) = 4
    /\ answers = <<"ok", "ok", "ok", "error">>
    /\ calls[4].op \in EdgeOps
    /\ status = StatusBadRequest

----------------------------------------------------------------------------
(* C2 *)

\* The node and edge items of the body, as the path has them read.
InputNodes ==
    IF Len(req.resources) = 1 \/ req.resources[2] = "n" THEN req.body.nodes.items ELSE <<>>
InputEdges ==
    IF Len(req.resources) = 1 THEN req.body.edges.items
    ELSE IF req.resources[2] = "e" THEN req.body.nodes.items ELSE <<>>

\* The body is decoded without an error.
BodyDecodes ==
    /\ IsMutation
    /\ checkResources(req.resources, 1, 2)
    /\ IF Len(req.resources) = 1 THEN DecodesAsGraph(req.body)
       ELSE req.resources[2] \in {"n", "e"} /\ DecodesAsList(req.body)

\* Entity type and key of every item, nodes first: the calls that are due.
DueTags ==
    [n \in 1..Len(InputNodes) |-> <<"n", InputNodes[n].key>>] \o
    [n \in 1..Len(InputEdges) |-> <<"e", InputEdges[n].key>>]
\* Entity type and key of every call staged in the transaction.
StagedTags ==
    [n \in 1..Len(Staged) |->
        <<IF Staged[n].op \in NodeOps THEN "n" ELSE "e", ItemKey(Staged[n])>>]

\* C2: for a mutation request whose body decodes, the calls on the
\* transaction are the node strategy for each node in input order, then the
\* edge strategy for each edge in input order, then Commit; Commit is called
\* at most once, as the last call, only after every strategy call was made
\* and succeeded, and it is called when they all succeeded.
C2_CallOrder ==
    BodyDecodes =>
        /\ IsPrefix(StagedTags, DueTags)
        /\ \A n \in 1..Len(calls) :
              IF calls[n].op = "Commit"
              THEN /\ n = Len(calls)
                   /\ StagedTags = DueTags
                   /\ \A m \in 1..(n - 1) : answers[m] = "ok"
              ELSE calls[n].op \in TransOps
        /\ (pc = "done" /\ \A n \in CallsOf(TransOps) : answers[n] = "ok")
              => /\ Cardinality(CallsOf({"Commit"})) = 1
                 /\ Len(calls) = Len(DueTags) + 1

\* Two different nodes and two different edges were staged in input order
\* and committed.
C2_Witness ==
    /\ BodyDecodes
    /\ pc = "done"
    /\ status = StatusOK
    /\ Len(calls) = 5
    /\ calls[5].op = "Commit"
    /\ InputNodes[1] # InputNodes[2]
    /\ InputEdges[1] # InputEdges[2]

----------------------------------------------------------------------------
(* C3, C4, C5: node lists *)

ListPart == req.resources[1]
ListKind == req.resources[3]
\* The keys the iterator of the request has to yield, and their number.
Population == store[ListPart].keys
P == Len(Population)
\* The offset and the limit asked for.
O == IF req.offset.t = "unset" THEN 0 ELSE req.offset.n
LimitSet == req.limit.t # "unset"
L == req.limit.n

\* The request is a node list that was given its iterator.
IteratorOpened ==
    /\ IsNodeList(req)
    /\ \E n \in CallsOf({"NodeKeyIterator"}) : answers[n] = "ok"

\* The keys taken from the iterator and not fetched: the skipped ones.
SkippedCalls ==
    {n \in CallsOf({"Next"}) :
        answers[n] = "ok" /\ (n = Len(calls) \/ calls[n + 1].op # "FetchNode")}

\* The iterator reported a fault while keys were skipped.  The skip loop
\* makes the calls 2 .. O+1 of the request.
SkipFault == \E n \in CallsOf({"Next"}) : n <= O + 1 /\ answers[n] = "error"

\* C3: for a node list with offset O over an iterator of P keys that yields
\* its keys without a fault: if O > P the request fails with "Offset exceeds
\* available nodes", without a row, a header or a body; if O <= P exactly
\* the first O keys are skipped, and with O = P the request succeeds with an
\* empty list; in both cases min(O, P) keys are consumed by the skip phase.
C3_Skip ==
    (IteratorOpened /\ ~SkipFault /\ pc # "skip") =>
        /\ Cardinality(SkippedCalls) = Min(O, P)
        /\ \A m \in 1..Min(O, P) :
              /\ (m + 1) \in SkippedCalls
              /\ calls[m + 1].key = Population[m]
        /\ O > P =>
              /\ pc = "done"
              /\ status = StatusInternalServerError
              /\ errMsg = OwnError("Offset exceeds available nodes")
              /\ CallsOf({"FetchNode", "NodeCount"}) = {}
              /\ data = <<>>
              /\ out = <<>>
              /\ hdrTotal = -1
        /\ O <= P =>
              /\ errMsg # OwnError("Offset exceeds available nodes")
              /\ \A n \in CallsOf({"FetchNode"}) :
                    \E m \in (O + 1)..P : calls[n].key = Population[m]
        /\ (O = P /\ pc = "done") =>
              /\ status = StatusOK
              /\ out = <<>>

\* An offset beyond a population of two keys: both keys were consumed.
C3_Witness ==
    /\ IteratorOpened
    /\ P = 2
    /\ O = 3
    /\ Cardinality(SkippedCalls) = 2
    /\ pc = "done"
    /\ status = StatusInternalServerError

\* The rows due for the window of the request.
WindowEnd == IF LimitSet THEN Min(O + L, P) ELSE P
WindowRows == [m \in 1..(WindowEnd - O) |-> NodeData(ListPart, Population[O + m], ListKind)]
FetchCalls == SelectSeq(calls, LAMBDA c : c.op = "FetchNode")

\* C4: a successful node list with offset O, limit L and population P has
\* O <= P and emits exactly the records of the keys at the positions
\* O .. min(O+L, P)-1 (counted from 0) in iterator order, each fetched once:
\* at most L rows, none for L = 0, all remaining P-O rows without a limit.
C4_Window ==
    (IsNodeList(req) /\ pc = "done" /\ status = StatusOK) =>
        /\ O <= P
        /\ out = WindowRows
        /\ FetchCalls = [m \in 1..(WindowEnd - O) |->
                            Call("FetchNode", ListPart, Population[O + m], ListKind)]
        /\ LimitSet => Len(out) <= L
        /\ ~LimitSet => Len(out) = P - O

\* Of three keys, the second alone is returned for offset 1 and limit 1.
C4_Witness ==
    /\ IsNodeList(req)
    /\ pc = "done"
    /\ status = StatusOK
    /\ P = 3
    /\ O = 1
    /\ LimitSet
    /\ L = 1
    /\ out = <<NodeData(ListPart, Population[2], ListKind)>>

\* C5: on every successful node list response the total count header is the
\* unfiltered population of the listing, the number of nodes an unpaginated
\* listing of the partition and kind returns, whatever offset and limit are;
\* it is not the number of rows emitted.
C5_TotalCountIsPopulation ==
    (IsNodeList(req) /\ pc = "done" /\ status = StatusOK) =>
        hdrTotal = P

----------------------------------------------------------------------------
(* C6, C7: traversal results *)

\* The request is a traversal whose TraverseMulti call returned a result.
Traversed == \E n \in CallsOf({"TraverseMulti"}) : answers[n] = "ok"

\* The bijections on 1..n.
Perms(n) == {f \in [1..n -> 1..n] : \A a, b \in 1..n : a # b => f[a] # f[b]}

\* The pairs (dataNodes[n], dataEdges[n]) are the pairs of the traversal
\* result, permuted by f.
PairsPermutedBy(f) ==
    \A n \in 1..Len(dataNodes) :
        /\ dataNodes[n] = travNodes[f[n]]
        /\ dataEdges[n] = travEdges[f[n]]

\* C6: while the traversal result is sorted, after every Swap and at the
\* end, the node and edge sequences have the length of the result and are
\* the result's (node, edge) pairs under one permutation of the indices: no
\* edge is separated from its node.
C6_PairingPreserved ==
    Traversed =>
        /\ Len(dataNodes) = Len(travNodes)
        /\ Len(dataEdges) = Len(travNodes)
        /\ \E f \in Perms(Len(travNodes)) : PairsPermutedBy(f)

\* A Swap has moved two nodes with different edges.
C6_Witness ==
    /\ pc = "sort"
    /\ Len(dataNodes) = 3
    /\ dataNodes # travNodes
    /\ dataEdges # travEdges

KeyString(node) == Sprintf(node.key)

\* C7: the nodes of a traversal response are in ascending order of the
\* string form of their keys, the order of the result is kept among nodes
\* with equal key strings (and their edges), and an empty result is answered
\* with two empty lists.
C7_StableAscending ==
    (Traversed /\ pc = "done") =>
        /\ status = StatusOK
        /\ out = <<dataNodes, dataEdges>>
        /\ \A a, b \in 1..Len(dataNodes) :
              a < b => ~StrLess(KeyString(dataNodes[b]), KeyString(dataNodes[a]))
        /\ \E f \in Perms(Len(travNodes)) :
              /\ Len(dataNodes) = Len(travNodes)
              /\ PairsPermutedBy(f)
              /\ \A a, b \in 1..Len(dataNodes) :
                    (a < b /\ KeyString(dataNodes[a]) = KeyString(dataNodes[b])) => f[a] < f[b]
        /\ travNodes = <<>> => out = << <<>>, <<>> >>

\* The string "10" and the number 10, with different edges, came after "b"
\* and are returned before it in the order they came in.
C7_Witness ==
    /\ pc = "done"
    /\ status = StatusOK
    /\ travNodes = <<[key |-> StrKey(Str_b)], [key |-> StrKey(Str_10)], [key |-> NumKey(10)]>>
    /\ travEdges = <<[key |-> "e1"], [key |-> "e1"], [key |-> "e2"]>>
    /\ out = << <<[key |-> StrKey(Str_10)], [key |-> NumKey(10)], [key |-> StrKey(Str_b)]>>,
                <<[key |-> "e1"], [key |-> "e2"], [key |-> "e1"]>> >>

----------------------------------------------------------------------------
(* C8, C9, C10: paths, strategies and response classes *)

\* The malformed paths of a GET: a length outside 3..5, or an entity type
\* that is neither n nor e.
BadPathGET ==
    /\ req.verb = "GET"
    /\ \/ Len(req.resources) < 3
       \/ Len(req.resources) > 5
       \/ req.resources[2] \notin {"n", "e"}

\* The malformed paths of a PUT, POST or DELETE: a length outside 1..2, or a
\* second segment that is neither n nor e.
BadPathMutation ==
    /\ IsMutation
    /\ \/ Len(req.resources) < 1
       \/ Len(req.resources) > 2
       \/ (Len(req.resources) = 2 /\ req.resources[2] \notin {"n", "e"})

\* C8: a request with a malformed path makes no call on a collaborator (no
\* iterator, fetch, traversal, strategy call or Commit) and is answered with
\* a client error.
C8_BadPathRejected ==
    (BadPathGET \/ BadPathMutation) =>
        /\ calls = <<>>
        /\ pc = "done" => status = StatusBadRequest

\* C8, for GET alone.
C8_BadPathRejectedGET ==
    BadPathGET =>
        /\ calls = <<>>
        /\ pc = "done" => status = StatusBadRequest

\* The strategy table: the call due for an item under a verb.
StrategyCall(verb, isNode, part, item) ==
    CASE verb = "PUT" ->
           [op |-> IF isNode THEN "UpdateNode" ELSE "StoreEdge", part |-> part, item |-> item]
      [] verb = "POST" ->
           [op |-> IF isNode THEN "StoreNode" ELSE "StoreEdge", part |-> part, item |-> item]
      [] verb = "DELETE" ->
           [op |-> IF isNode THEN "RemoveNode" ELSE "RemoveEdge", part |-> part,
            key |-> item.key, kind |-> item.kind]

DueItems == InputNodes \o InputEdges

\* C9: the call made for an item depends on the verb alone: PUT updates
\* nodes and stores edges, POST stores nodes and edges, DELETE removes nodes
\* and edges and passes only the key and the kind of the item; all calls of
\* a request are those of its verb.
C9_StrategyByVerb ==
    BodyDecodes =>
        /\ Len(Staged) <= Len(DueItems)
        /\ \A n \in 1..Min(Len(Staged), Len(DueItems)) :
              Staged[n] = StrategyCall(req.verb, n <= Len(InputNodes), req.resources[1], DueItems[n])

\* A PUT has updated a node and stored an edge.
C9_Witness ==
    /\ BodyDecodes
    /\ req.verb = "PUT"
    /\ pc = "done"
    /\ status = StatusOK
    /\ Len(Staged) = 2
    /\ Staged[1].op = "UpdateNode"
    /\ Staged[2].op = "StoreEdge"

\* The causes of a failure, by the class of response the taxonomy gives them.
BadParams == IsNodeList(req) /\ (~queryParamOk(req.limit) \/ ~queryParamOk(req.offset))
UndecodableBody == IsMutation /\ checkResources(req.resources, 1, 2) /\ ~BodyDecodes
    /\ (Len(req.resources) = 1 \/ req.resources[2] \in {"n", "e"})
RejectedItem == \E n \in CallsOf(TransOps) : answers[n] = "error"
LookupMiss ==
    \E n \in CallsOf({"FetchNode", "FetchEdge", "FetchNodePart", "NodeKeyIterator"}) :
        answers[n] = "nil"
CollaboratorFault ==
    \E n \in CallsOf({"NodeKeyIterator", "Next", "FetchNode", "FetchEdge", "FetchNodePart",
                      "TraverseMulti", "Commit"}) :
        answers[n] = "error"
OffsetBeyondPopulation == IteratorOpened /\ O > P

\* The response classes, for a given notion of a bad path.
ResponseClasses(badPath) ==
    pc = "done" =>
        /\ (badPath \/ BadParams \/ UndecodableBody \/ RejectedItem \/ LookupMiss)
              => status = StatusBadRequest
        /\ (CollaboratorFault \/ OffsetBeyondPopulation)
              => status = StatusInternalServerError
        /\ status = StatusOK
              => ~(badPath \/ BadParams \/ UndecodableBody \/ RejectedItem \/ LookupMiss
                   \/ CollaboratorFault \/ OffsetBeyondPopulation)
        /\ status \in {StatusOK, StatusBadRequest, StatusInternalServerError}

\* GET lists of edges and traversals from edges are refused as well.
NodesOnlyPath ==
    /\ req.verb = "GET"
    /\ Len(req.resources) \in {3, 5}
    /\ req.resources[2] = "e"

\* C10: a bad path, bad query parameters, an undecodable body, a rejected
\* item and a lookup miss are answered with a client error; a fault of the
\* iterator, a fetch, the traversal or Commit and an offset beyond the
\* population with a server error; no failure is answered with a success.
C10_ResponseClasses ==
    ResponseClasses(BadPathGET \/ BadPathMutation \/ NodesOnlyPath)

\* C10 with the bad paths of a mutation as checkResources alone finds them.
C10_ResponseClassesLengthOnly ==
    ResponseClasses(BadPathGET \/ NodesOnlyPath
                    \/ (IsMutation /\ ~checkResources(req.resources, 1, 2)))

----------------------------------------------------------------------------
(* C11: the GET requests that are lists *)

\* The positions of the handler in the list branch (LISTING); at "panic" the
\* handler was ended by a run-time panic in that branch.
ListingPcs == {"params", "iter", "skip", "list", "count"}

\* The messages of the refusals of lines 224-231 and 328.
PathRefusals ==
    {"Need a partition, entity type (n or e) and a kind; optional key and traversal spec",
     "Entity type must be n (nodes) or e (edges)",
     "Entity type must be n (nodes) when requesting all items"}

\* The request has left RECEIVED into the list branch.
EnteredListing ==
    \/ pc \in ListingPcs \cup {"panic"}
    \/ pc = "done" /\ errMsg.msg \notin PathRefusals

\* The GET requests the claim takes for lists: partition and entity type n
\* or e, with or without a kind.
ListShape ==
    /\ req.verb = "GET"
    /\ Len(req.resources) \in {2, 3}
    /\ req.resources[2] \in {"n", "e"}

\* The body of a list response: an array of the attribute objects of nodes
\* of the partition and kind asked for.
IsRowArray(o) ==
    \A n \in 1..Len(o) :
        \E key \in Keys : o[n] = NodeData(req.resources[1], key, req.resources[3])

\* C11 as claimed: a GET on partition/n, partition/e, partition/n/kind or
\* partition/e/kind reaches LISTING, and its success response is a JSON array
\* of attribute objects with the total count header.
C11_ListBothTypes ==
    (ListShape /\ pc # "received") =>
        /\ EnteredListing
        /\ (pc = "done" /\ status = StatusOK) => (IsRowArray(out) /\ hdrTotal # -1)

\* C11 amended: only a GET on partition/n/kind reaches LISTING, and its
\* success response is a JSON array of attribute objects with the total count
\* header; a GET on partition/n, partition/e or partition/e/kind is answered
\* with a client error, without a call on a collaborator, a row or the
\* header.
C11_NodeListOnly ==
    (ListShape /\ pc # "received") =>
        IF IsNodeList(req)
        THEN /\ EnteredListing
             /\ (pc = "done" /\ status = StatusOK) => (IsRowArray(out) /\ hdrTotal # -1)
        ELSE /\ pc = "done"
             /\ status = StatusBadRequest
             /\ errMsg.msg \in PathRefusals
             /\ calls = <<>>
             /\ out = <<>>
             /\ hdrTotal = -1

\* A list of nodes of a kind was answered with two rows and the header.
C11_Witness ==
    /\ IsNodeList(req)
    /\ pc = "done"
    /\ status = StatusOK
    /\ Len(out) = 2
    /\ IsRowArray(out)
    /\ hdrTotal # -1

----------------------------------------------------------------------------
(* C12: the states of a request *)

TraversingPcs == {"travstart", "traverse", "sort", "encode"}
MutatingPcs == {"decode", "nodes", "edges", "commit"}

\* The terminal states: a success response, or an error response.
Responded == pc = "done" /\ status = StatusOK
Failed == pc = "done" /\ status \in {StatusBadRequest, StatusInternalServerError}

\* The handler has ended: it makes no further step.
Ended == ~ENABLED Next

\* RECEIVED -> RESOLVED -> LISTING, FETCHING, TRAVERSING or MUTATING: the
\* handler works in the branch its path resolves to.
BranchOfPath ==
    /\ pc \in ListingPcs \cup {"panic"} => IsNodeList(req)
    /\ pc = "fetch" =>
          req.verb = "GET" /\ Len(req.resources) = 4 /\ req.resources[2] \in {"n", "e"}
    /\ pc \in TraversingPcs =>
          req.verb = "GET" /\ Len(req.resources) = 5 /\ req.resources[2] = "n"
    /\ pc \in MutatingPcs => IsMutation /\ checkResources(req.resources, 1, 2)

\* Once an error is detected there is one error response, no further call
\* and no body; nothing is written before the status is final; a success is
\* not combined with a failure.
ResponseDiscipline ==
    \* a response is written once, as the last step of the handler
    /\ status # 0 => pc = "done"
    /\ pc = "done" => (Responded \/ Failed)
    \* a call that failed or found nothing is the last call
    /\ \A n \in 1..Len(calls) :
          answers[n] # "ok" => (n = Len(calls) /\ Ended /\ ~Responded)
    \* an error response carries the error and nothing else
    /\ Failed =>
          /\ errMsg # NoError
          /\ out = <<>>
          /\ hdrTotal = -1
          /\ committed = <<>>
          /\ errMsg.call # 0 => (errMsg.call = Len(calls) /\ answers[Len(calls)] = "error")
    \* no row, header or commit before the status is final
    /\ status = 0 =>
          /\ errMsg = NoError
          /\ out = <<>>
          /\ hdrTotal = -1
          /\ committed = <<>>
    \* a success follows successes only
    /\ Responded =>
          /\ errMsg = NoError
          /\ \A n \in 1..Len(calls) : answers[n] = "ok"

\* C12: every request goes from RECEIVED through the branch its path
\* resolves to and ends in exactly one of RESPONDED and FAILED; once an error
\* is detected exactly one error response is written and no further
\* collaborator call and no body output follow; a list request emits no row
\* and no success body until every skip and fetch of the window has
\* succeeded, so a success status is never combined with a later failure.
C12_Lifecycle ==
    /\ BranchOfPath
    /\ ResponseDiscipline
    /\ Ended => (Responded \/ Failed)

\* C12 without its last part: the order of the branches and the discipline
\* of the responses, also of a handler that ends in a panic.
C12_LifecycleUntilEnd ==
    /\ BranchOfPath
    /\ ResponseDiscipline
    /\ Ended => (Responded \/ Failed \/ (pc = "panic" /\ status = 0))

\* A list request failed at a fetch after a row was collected, and wrote the
\* error alone.
C12_FailedAfterRow ==
    /\ IsNodeList(req)
    /\ Failed
    /\ Len(data) >= 1
    /\ answers[Len(calls)] = "error"
    /\ calls[Len(calls)].op = "FetchNode"

====
